---- MODULE Spec2Model ----
(***************************************************************************)
(* Evaluation aggregation and step progression of the wound-care training  *)
(* backend: Scoring (utils/scoring.py), the Coordinator                    *)
(* (core/coordinator.py), the SessionManager (services/session_manager.py),*)
(* the EvaluationService (services/evaluation_service.py) and the          *)
(* /session/step route (api/session_routes.py).                            *)
(*                                                                         *)
(* Scores and confidences are fixed-point numbers in thousandths           *)
(* (1000 = 1.0); weights are in tenths (10 = 1.0).                         *)
(***************************************************************************)
EXTENDS Integers, Sequences, FiniteSets, TLC

VARIABLES sessions, call, resp, inflight

vars == <<sessions, call, resp, inflight>>

(***************************************************************************)
(* Bounds                                                                  *)
(***************************************************************************)
\* longest verdict list handed to Coordinator.aggregate in SpecAgg
MaxEvals == 2

\* sessions created in one run
MaxSessions == 1

\* longest logs, rag_results and action_events lists of a session
MaxLogs == 3

MaxRag == 1

MaxEvents == 1

\* list entries (logs, rag_results, action_events) in the whole registry when
\* several sessions run side by side
MaxEntries == 1

\* Python's None
None == "None"

\* threshold_used = None, composite_score missing
NoNumber == -1

(***************************************************************************)
(* Steps (app.core.state_machine)                                          *)
(***************************************************************************)
StepOrder == <<"HISTORY", "ASSESSMENT", "CLEANING", "DRESSING">>

Steps == {StepOrder[i] : i \in 1..Len(StepOrder)}

StepIndex(s) == CHOOSE i \in 1..Len(StepOrder) : StepOrder[i] = s

\* next_step(Step): the successor in the order; raises at the terminal step
\* (reported here as None, the callers catch the exception)
next_step(s) ==
    IF StepIndex(s) < Len(StepOrder) THEN StepOrder[StepIndex(s) + 1] ELSE None

(***************************************************************************)
(* Evaluator verdicts (utils/schema.py)                                    *)
(***************************************************************************)
Roles == {"CommunicationAgent", "KnowledgeAgent", "ClinicalAgent", "PeerAgent"}

Verdicts == {"Appropriate", "Partially Appropriate", "Inappropriate"}

\* confidence: ge=0.0, le=1.0, in thousandths
Confidences == {0, 500, 1000}

\* current_step is a free string for the Coordinator
AggSteps == Steps \cup {"DEBRIEF"}

EvaluatorResponse(st) ==
    [agent_name : Roles, step : {st}, verdict : Verdicts, confidence : Confidences]

EvalLists(st) ==
    UNION {[1..n -> EvaluatorResponse(st)] : n \in 0..MaxEvals}

(***************************************************************************)
(* Scoring (utils/scoring.py)                                              *)
(***************************************************************************)
\* round(x, 3) on a value given as n/d thousandths: round half to even
Round(n, d) ==
    LET q == n \div d
        r == n % d
    IN  IF 2 * r > d THEN q + 1
        ELSE IF 2 * r < d THEN q
        ELSE IF q % 2 = 0 THEN q ELSE q + 1

\* VERDICT_SCORE_MAP.get(verdict, 0.0), in tenths
VERDICT_SCORE_MAP(v) ==
    CASE v = "Appropriate" -> 10
      [] v = "Partially Appropriate" -> 6
      [] v = "Inappropriate" -> 0
      [] OTHER -> 0

\* STEP_WEIGHTS.get(step, {}).get(role, 0.0), in tenths
STEP_WEIGHTS(st, role) ==
    CASE st = "HISTORY" ->
           (CASE role = "CommunicationAgent" -> 5
              [] role = "KnowledgeAgent" -> 4
              [] role = "ClinicalAgent" -> 1
              [] OTHER -> 0)
      [] st = "ASSESSMENT" ->
           (CASE role = "CommunicationAgent" -> 3
              [] role = "KnowledgeAgent" -> 7
              [] role = "ClinicalAgent" -> 0
              [] OTHER -> 0)
      [] st \in {"CLEANING", "DRESSING"} ->
           (CASE role = "CommunicationAgent" -> 1
              [] role = "KnowledgeAgent" -> 1
              [] role = "ClinicalAgent" -> 8
              [] OTHER -> 0)
      [] OTHER -> 0

score_single_evaluation(ev) ==
    Round(VERDICT_SCORE_MAP(ev.verdict) * ev.confidence, 10)

RECURSIVE WeightedSum(_, _, _)
\* composite_score after the loop over evaluations[1..n], in ten-thousandths
WeightedSum(evals, st, n) ==
    IF n = 0 THEN 0
    ELSE WeightedSum(evals, st, n - 1)
         + score_single_evaluation(evals[n]) * STEP_WEIGHTS(st, evals[n].agent_name)

(***************************************************************************)
(* Python floats: IEEE-754 binary64, round to nearest, ties to even.  A    *)
(* natural number is a sequence of limbs, least significant first; a float *)
(* is [m, e] with value m * 2^e and m of MantissaBits bits, or m = <<>>    *)
(* for 0.0.                                                                *)
(***************************************************************************)
LimbBits == 15

LimbBase == 32768

MantissaBits == 53

Limb(a, i) == IF i <= Len(a) THEN a[i] ELSE 0

RECURSIVE Carry(_, _)
\* the limbs of the number whose i-th digit is d[i], plus c
Carry(d, c) ==
    IF d = <<>>
    THEN IF c = 0 THEN <<>> ELSE <<c % LimbBase>> \o Carry(<<>>, c \div LimbBase)
    ELSE <<(d[1] + c) % LimbBase>> \o Carry(Tail(d), (d[1] + c) \div LimbBase)

BigAdd(a, b) ==
    LET n == IF Len(a) >= Len(b) THEN Len(a) ELSE Len(b)
    IN  Carry([i \in 1..n |-> Limb(a, i) + Limb(b, i)], 0)

\* a * k for 0 <= k <= LimbBase
BigMulSmall(a, k) == Carry([i \in 1..Len(a) |-> a[i] * k], 0)

RECURSIVE BigMul(_, _)
BigMul(a, b) ==
    IF b = <<>> THEN <<>>
    ELSE BigAdd(BigMulSmall(a, b[1]), <<0>> \o BigMul(a, Tail(b)))

\* one digit of the long division: hi is the division of the higher limbs
DivStep(hi, low, d) ==
    [q |-> <<(hi.r * LimbBase + low) \div d>> \o hi.q,
     r |-> (hi.r * LimbBase + low) % d]

RECURSIVE BigDivSmall(_, _)
\* quotient and remainder of a by d, for 0 < d <= LimbBase
BigDivSmall(a, d) ==
    IF a = <<>> THEN [q |-> <<>>, r |-> 0]
    ELSE DivStep(BigDivSmall(Tail(a), d), a[1], d)

RECURSIVE SmallBits(_)
SmallBits(x) == IF x = 0 THEN 0 ELSE 1 + SmallBits(x \div 2)

RECURSIVE BitLength(_)
BitLength(a) ==
    IF a = <<>> THEN 0
    ELSE IF a[Len(a)] = 0 THEN BitLength(SubSeq(a, 1, Len(a) - 1))
    ELSE LimbBits * (Len(a) - 1) + SmallBits(a[Len(a)])

BigOdd(a) == Limb(a, 1) % 2 = 1

BigShiftLeft(a, s) ==
    [i \in 1..(s \div LimbBits) |-> 0] \o BigMulSmall(a, 2 ^ (s % LimbBits))

\* a without its k lowest limbs, divided by 2^bits
ShiftedOut(a, k, bits) ==
    [q |-> BigDivSmall(SubSeq(a, k + 1, Len(a)), 2 ^ bits).q,
     sticky |-> \/ BigDivSmall(SubSeq(a, k + 1, Len(a)), 2 ^ bits).r # 0
                \/ \E i \in 1..k : a[i] # 0]

\* a shifted right by s bits, and whether a 1 bit was shifted out
BigShiftRight(a, s) ==
    ShiftedOut(a,
               IF s \div LimbBits <= Len(a) THEN s \div LimbBits ELSE Len(a),
               s % LimbBits)

\* q, or q + 1 when the bits dropped below it are above one half, or are one
\* half and q is odd
HalfEven(q, half, sticky) ==
    IF half /\ (sticky \/ BigOdd(q)) THEN BigAdd(q, <<1>>) ELSE q

\* t.q holds one bit more than the result
DropLastBit(t) == HalfEven(BigDivSmall(t.q, 2).q, BigOdd(t.q), t.sticky)

\* n * 2^(-s) rounded to an integer, ties to even, for s >= 1
RoundShift(n, s) == DropLastBit(BigShiftRight(n, s - 1))

FloatZero == [m |-> <<>>, e |-> 0]

\* a rounded mantissa that reached 2^MantissaBits is halved
Renormalised(m, e) ==
    IF BitLength(m) > MantissaBits
    THEN [m |-> BigDivSmall(m, 2).q, e |-> e + 1]
    ELSE [m |-> m, e |-> e]

\* the float nearest to n * 2^e, len the bit length of n
Normalised(n, e, len) ==
    IF len = 0 THEN FloatZero
    ELSE IF len <= MantissaBits
    THEN [m |-> BigShiftLeft(n, MantissaBits - len), e |-> e - (MantissaBits - len)]
    ELSE Renormalised(RoundShift(n, len - MantissaBits), e + (len - MantissaBits))

\* the float nearest to n * 2^e
ToFloat(n, e) == Normalised(n, e, BitLength(n))

\* div is the division of n * 2^(5 * LimbBits) by d: the quotient, with a
\* last bit that is set when the division was inexact
FloatOfQuotient(div) ==
    ToFloat(BigAdd(BigMulSmall(div.q, 2), IF div.r = 0 THEN <<>> ELSE <<1>>),
            0 - (5 * LimbBits + 1))

\* the float a decimal literal n/d denotes, for 0 <= n < LimbBase, 0 < d < LimbBase
FloatOf(n, d) == FloatOfQuotient(BigDivSmall(<<0, 0, 0, 0, 0, n>>, d))

\* x * y
FloatMul(x, y) == ToFloat(BigMul(x.m, y.m), x.e + y.e)

\* x + y for mantissas aligned at exponent e
FloatAddAt(x, y, e) ==
    ToFloat(BigAdd(BigShiftLeft(x.m, x.e - e), BigShiftLeft(y.m, y.e - e)), e)

\* x + y
FloatAdd(x, y) ==
    IF x.m = <<>> THEN y
    ELSE IF y.m = <<>> THEN x
    ELSE FloatAddAt(x, y, IF x.e <= y.e THEN x.e ELSE y.e)

RECURSIVE BigToInt(_)
BigToInt(a) == IF a = <<>> THEN 0 ELSE a[1] + LimbBase * BigToInt(Tail(a))

\* round(x, 3) in thousandths, for 0 <= x < 2^16: the decimal nearest to the
\* exact value of the float
FloatRound3(x) ==
    IF x.m = <<>> THEN 0
    ELSE BigToInt(RoundShift(BigMulSmall(x.m, 1000), 0 - x.e))

RECURSIVE FloatSum(_, _, _)
\* composite_score after the loop over evaluations[1..n], as the float it is:
\* composite_score += score * weight, starting from 0.0
FloatSum(evals, st, n) ==
    IF n = 0 THEN FloatZero
    ELSE FloatAdd(FloatSum(evals, st, n - 1),
                  FloatMul(FloatOf(score_single_evaluation(evals[n]), 1000),
                           FloatOf(STEP_WEIGHTS(st, evals[n].agent_name), 10)))

\* round(composite_score, 3).  The binary error of the sum is below 2^-40, so
\* it decides the rounding only when the decimal sum ends on a 5 in its fourth
\* place; everywhere else the result is the rounded decimal sum.
RoundedComposite(evals, st) ==
    IF WeightedSum(evals, st, Len(evals)) % 10 = 5
    THEN FloatRound3(FloatSum(evals, st, Len(evals)))
    ELSE Round(WeightedSum(evals, st, Len(evals)), 10)

\* index of the last verdict of a role: dict assignment keeps the last one
LastOf(evals, role) ==
    CHOOSE i \in 1..Len(evals) :
        /\ evals[i].agent_name = role
        /\ \A j \in (i + 1)..Len(evals) : evals[j].agent_name # role

RolesIn(evals) == {evals[i].agent_name : i \in 1..Len(evals)}

\* aggregate_scores starting from the composite of the call before instead
\* of 0.0
aggregate_scores_carried(evals, st) ==
    [agent_scores |->
        [role \in RolesIn(evals) |-> score_single_evaluation(evals[LastOf(evals, role)])],
     composite_score |->
        RoundedComposite(evals, st)
        + (IF resp.status = "ok" /\ resp.evaluation.scores.composite_score > 0
           THEN resp.evaluation.scores.composite_score ELSE 0)]

aggregate_scores(evals, st) ==
    [agent_scores |->
        [role \in RolesIn(evals) |-> score_single_evaluation(evals[LastOf(evals, role)])],
     composite_score |-> RoundedComposite(evals, st)]

\* the global readiness threshold, 0.7
READINESS_THRESHOLD == 700

\* check_readiness(evaluations, step, composite_score)
check_readiness(evals, st, composite) ==
    [ready_for_next_step |-> composite >= READINESS_THRESHOLD,
     threshold_used |-> READINESS_THRESHOLD,
     blocking_issues |->
        IF composite >= READINESS_THRESHOLD THEN <<>>
        ELSE <<"Composite score below readiness threshold">>]

(***************************************************************************)
(* Coordinator.aggregate (core/coordinator.py)                             *)
(***************************************************************************)
\* SafetyOverride without the step guard
SafetyNoStepGuard(evals, st) ==
    \E i \in 1..Len(evals) :
        evals[i].agent_name = "ClinicalAgent" /\ evals[i].verdict = "Inappropriate"

\* the safety override loop, coordinator.py:72-82
SafetyOverride(evals, st) ==
    /\ st \in {"CLEANING", "DRESSING"}
    /\ \E i \in 1..Len(evals) :
        evals[i].agent_name = "ClinicalAgent" /\ evals[i].verdict = "Inappropriate"

\* FinalDecision with readiness passed through
DecisionNoVeto(safety_blocked, readiness) ==
    [ready_for_next_step |-> readiness.ready_for_next_step,
     safety_blocked |-> safety_blocked,
     blocking_issues |->
        IF safety_blocked
        THEN <<"Unsafe clinical action detected during procedure">> ELSE <<>>,
     threshold_used |-> readiness.threshold_used]

\* FinalDecision ready whenever safety does not block
DecisionBlockedOnly(safety_blocked, readiness) ==
    [ready_for_next_step |-> ~safety_blocked,
     safety_blocked |-> safety_blocked,
     blocking_issues |->
        IF safety_blocked
        THEN <<"Unsafe clinical action detected during procedure">> ELSE <<>>,
     threshold_used |-> readiness.threshold_used]

\* FinalDecision reporting no threshold under a safety block
DecisionNoThreshold(safety_blocked, readiness) ==
    [ready_for_next_step |->
        IF safety_blocked THEN FALSE ELSE readiness.ready_for_next_step,
     safety_blocked |-> safety_blocked,
     blocking_issues |->
        IF safety_blocked
        THEN <<"Unsafe clinical action detected during procedure">> ELSE <<>>,
     threshold_used |->
        IF safety_blocked THEN NoNumber ELSE readiness.threshold_used]

\* the final decision, coordinator.py:87-94
FinalDecision(safety_blocked, readiness) ==
    [ready_for_next_step |->
        IF safety_blocked THEN FALSE ELSE readiness.ready_for_next_step,
     safety_blocked |-> safety_blocked,
     blocking_issues |->
        IF safety_blocked
        THEN <<"Unsafe clinical action detected during procedure">> ELSE <<>>,
     threshold_used |-> readiness.threshold_used]

\* agent_feedback[ev.agent_name] = {...}: the last verdict of a role wins
AgentFeedback(evals) ==
    [role \in RolesIn(evals) |->
        [verdict |-> evals[LastOf(evals, role)].verdict,
         confidence |-> evals[LastOf(evals, role)].confidence]]

EmptyMap == [role \in {} |-> 0]

\* aggregate without the no-evaluations case
aggregate_no_empty_case(evals, st) ==
    LET score_result == aggregate_scores(evals, st)
        readiness_result == check_readiness(evals, st, score_result.composite_score)
    IN  [step |-> st,
         agent_feedback |-> AgentFeedback(evals),
         score_keys |-> {"agent_scores", "composite_score"},
         scores |-> score_result,
         decision |-> FinalDecision(SafetyOverride(evals, st), readiness_result)]

\* Coordinator.aggregate; score_keys are the keys of the "scores" dict, which
\* is empty in the no-evaluations case
aggregate(evals, st) ==
    IF Len(evals) = 0
    THEN [step |-> st,
          agent_feedback |-> EmptyMap,
          score_keys |-> {},
          scores |-> [agent_scores |-> EmptyMap, composite_score |-> NoNumber],
          decision |-> [ready_for_next_step |-> FALSE,
                        safety_blocked |-> FALSE,
                        blocking_issues |-> <<"No evaluations available">>,
                        threshold_used |-> NoNumber]]
    ELSE LET score_result == aggregate_scores(evals, st)
             readiness_result == check_readiness(evals, st, score_result.composite_score)
         IN  [step |-> st,
              agent_feedback |-> AgentFeedback(evals),
              score_keys |-> {"agent_scores", "composite_score"},
              scores |-> score_result,
              decision |-> FinalDecision(SafetyOverride(evals, st), readiness_result)]

\* no evaluation attached to a response
NoEvaluation ==
    [step |-> None,
     agent_feedback |-> EmptyMap,
     score_keys |-> {},
     scores |-> [agent_scores |-> EmptyMap, composite_score |-> NoNumber],
     decision |-> [ready_for_next_step |-> FALSE,
                   safety_blocked |-> FALSE,
                   blocking_issues |-> <<>>,
                   threshold_used |-> NoNumber]]

(***************************************************************************)
(* Calls and responses                                                     *)
(***************************************************************************)
NoCall == [op |-> "init", sid |-> 0, step |-> None, evals |-> <<>>, arg |-> None]

NoResp ==
    [status |-> "init", value |-> None, locked |-> FALSE, next_step |-> None,
     evaluation |-> NoEvaluation]

NoSessions == [sid \in {} |-> 0]

\* no /session/step request suspended at an await; base is the registry as
\* it was when the first of the requests in flight arrived
NoRequests == [base |-> NoSessions, reqs |-> <<>>]

(***************************************************************************)
(* SessionManager (services/session_manager.py)                            *)
(***************************************************************************)
\* a value update_session can put into current_step that is no Step
NoStep == "TRIAGE"

StepValues == Steps \cup {NoStep}

\* the retry cap
MAX_ATTEMPTS == 3

\* the dict built by create_session; "locked", "attempts", "last_evaluation"
\* and "action_events" are absent keys, read through .get as falsy / 0 / None
NewSession ==
    [current_step |-> "HISTORY",
     locked |-> FALSE,
     lock_reason |-> None,
     attempts |-> [s \in StepValues |-> 0],
     logs |-> <<>>,
     rag_results |-> <<>>,
     action_events |-> <<>>,
     events |-> <<>>,
     last_evaluation |-> NoEvaluation]

\* session_id = f"sess_{len(self.sessions)+1}_{timestamp}", within one second
NewSessionId(reg) == Cardinality(DOMAIN reg) + 1

\* create_session handing the new session the log list of an earlier one
create_session_shared_logs(reg) ==
    [reg |-> [sid \in DOMAIN reg \cup {NewSessionId(reg)} |->
                IF sid # NewSessionId(reg) THEN reg[sid]
                ELSE IF reg = NoSessions THEN NewSession
                ELSE [NewSession EXCEPT !.logs = reg[1].logs]],
     ret |-> NewSessionId(reg)]

create_session(reg) ==
    [reg |-> [sid \in DOMAIN reg \cup {NewSessionId(reg)} |->
                IF sid = NewSessionId(reg) THEN NewSession ELSE reg[sid]],
     ret |-> NewSessionId(reg)]

\* the fields update_session is handed
LockUpdates == [key : {"locked"}, val : {"True", "False"}]

\* a list field handed over as a new, empty list
ListUpdates == [key : {"logs"}, val : {"[]"}]

Updates ==
    LockUpdates \cup [key : {"current_step"}, val : StepValues] \cup ListUpdates

\* session.update(updates), for a one-key dict
ApplyUpdate(session, upd) ==
    CASE upd.key = "locked" -> [session EXCEPT !.locked = (upd.val = "True")]
      [] upd.key = "logs" -> [session EXCEPT !.logs = <<>>]
      [] OTHER -> [session EXCEPT !.current_step = upd.val]

\* update_session writing into one dict shared by all sessions
update_session_shared(reg, sid, upd) ==
    IF sid \notin DOMAIN reg THEN [reg |-> reg, ret |-> "False"]
    ELSE [reg |-> [s \in DOMAIN reg |-> ApplyUpdate(reg[s], upd)], ret |-> "True"]

update_session(reg, sid, upd) ==
    IF sid \notin DOMAIN reg THEN [reg |-> reg, ret |-> "False"]
    ELSE [reg |-> [reg EXCEPT ![sid] = ApplyUpdate(reg[sid], upd)], ret |-> "True"]

add_rag_result(reg, sid, data) ==
    IF sid \notin DOMAIN reg THEN [reg |-> reg, ret |-> "False"]
    ELSE [reg |-> [reg EXCEPT ![sid].rag_results = Append(@, data)], ret |-> "True"]

\* add_log opening a session for an identifier it does not know
add_log_creates(reg, sid, entry) ==
    IF sid \notin DOMAIN reg
    THEN [reg |-> [s \in DOMAIN reg \cup {sid} |->
                     IF s = sid THEN [NewSession EXCEPT !.logs = <<entry>>]
                     ELSE reg[s]],
          ret |-> "True"]
    ELSE [reg |-> [reg EXCEPT ![sid].logs = Append(@, entry)], ret |-> "True"]

add_log(reg, sid, entry) ==
    IF sid \notin DOMAIN reg THEN [reg |-> reg, ret |-> "False"]
    ELSE [reg |-> [reg EXCEPT ![sid].logs = Append(@, entry)], ret |-> "True"]

\* advance_step starting over at the first step after the terminal one
advance_step_wraps(reg, sid) ==
    IF sid \notin DOMAIN reg THEN [reg |-> reg, ret |-> None]
    ELSE IF reg[sid].current_step \notin Steps THEN [reg |-> reg, ret |-> "ValueError"]
    ELSE IF next_step(reg[sid].current_step) = None
    THEN [reg |-> [reg EXCEPT ![sid].current_step = StepOrder[1]], ret |-> StepOrder[1]]
    ELSE [reg |-> [reg EXCEPT ![sid].current_step = next_step(@)],
          ret |-> next_step(reg[sid].current_step)]

\* advance_step moving two steps ahead where there are two
advance_step_skips(reg, sid) ==
    IF sid \notin DOMAIN reg THEN [reg |-> reg, ret |-> None]
    ELSE IF reg[sid].current_step \notin Steps THEN [reg |-> reg, ret |-> "ValueError"]
    ELSE IF next_step(reg[sid].current_step) = None THEN [reg |-> reg, ret |-> None]
    ELSE IF next_step(next_step(reg[sid].current_step)) = None
    THEN [reg |-> [reg EXCEPT ![sid].current_step = next_step(@)],
          ret |-> next_step(reg[sid].current_step)]
    ELSE [reg |-> [reg EXCEPT ![sid].current_step = next_step(next_step(@))],
          ret |-> next_step(next_step(reg[sid].current_step))]

\* advance_step(session_id): Step(current_step) raises ValueError for a value
\* that is no Step; next_step raising at the terminal step gives None
advance_step(reg, sid) ==
    IF sid \notin DOMAIN reg THEN [reg |-> reg, ret |-> None]
    ELSE IF reg[sid].current_step \notin Steps THEN [reg |-> reg, ret |-> "ValueError"]
    ELSE IF next_step(reg[sid].current_step) = None THEN [reg |-> reg, ret |-> None]
    ELSE [reg |-> [reg EXCEPT ![sid].current_step = next_step(@)],
          ret |-> next_step(reg[sid].current_step)]

\* delete_session(session_id)
delete_session(reg, sid) ==
    IF sid \in DOMAIN reg
    THEN [reg |-> [s \in DOMAIN reg \ {sid} |-> reg[s]], ret |-> "True"]
    ELSE [reg |-> reg, ret |-> "False"]

\* get_scenario_metadata(session_id): the metadata dict, None for no session
get_scenario_metadata(reg, sid) ==
    IF sid \notin DOMAIN reg THEN [reg |-> reg, ret |-> None]
    ELSE [reg |-> reg, ret |-> "scenario_metadata"]

\* lock_session(session_id, reason): locked = True, the reason stored
lock_session(reg, sid, reason) ==
    [reg EXCEPT ![sid].locked = TRUE, ![sid].lock_reason = reason]

\* increment_attempt keeping one counter for the whole session
increment_attempt_session_wide(reg, sid) ==
    [reg EXCEPT ![sid].attempts = [s \in DOMAIN @ |-> @[s] + 1]]

\* increment_attempt(session_id): one more attempt on the current step
increment_attempt(reg, sid) ==
    [reg EXCEPT ![sid].attempts[reg[sid].current_step] = @ + 1]

\* exceeded_max_attempts(session_id): the current step's counter reached the cap
exceeded_max_attempts(reg, sid) ==
    reg[sid].attempts[reg[sid].current_step] >= MAX_ATTEMPTS

\* store_last_evaluation(session_id, output)
store_last_evaluation(reg, sid, output) ==
    [reg EXCEPT ![sid].last_evaluation = output]

(***************************************************************************)
(* ActionEventService.log_action (utils/action_event_service.py)           *)
(***************************************************************************)
\* log_action writing the event's step into the session as well
log_action_sets_step(reg, sid, step) ==
    IF sid \notin DOMAIN reg THEN [reg |-> reg, ret |-> "ValueError"]
    ELSE [reg |-> [reg EXCEPT ![sid].action_events =
                        Append(@, [action_type |-> "WASH_HANDS", step |-> step]),
                              ![sid].current_step = step],
          ret |-> "event"]

log_action(reg, sid, step) ==
    IF sid \notin DOMAIN reg THEN [reg |-> reg, ret |-> "ValueError"]
    ELSE IF reg[sid].current_step # step THEN [reg |-> reg, ret |-> "ValueError"]
    ELSE [reg |-> [reg EXCEPT ![sid].action_events =
                        Append(@, [action_type |-> "WASH_HANDS", step |-> step])],
          ret |-> "event"]

(***************************************************************************)
(* MCQEvaluator.validate_mcq_answers (utils/mcq_evaluator.py)              *)
(***************************************************************************)
\* scenario_meta.get("assessment_questions") of the scenario the sessions run
assessment_questions ==
    <<[id |-> "q1", correct_answer |-> "A"], [id |-> "q2", correct_answer |-> "B"]>>

\* student_mcq_answers as a caller supplies them: absent, all correct, all wrong
McqInputs == {"absent", "all_correct", "all_wrong"}

\* MCQ answers accompany the verdicts of an ASSESSMENT submission
McqFor(step) == IF step = "ASSESSMENT" THEN McqInputs ELSE {"absent"}

student_mcq_answers(mcq) ==
    CASE mcq = "all_correct" -> [qid \in {"q1", "q2"} |-> IF qid = "q1" THEN "A" ELSE "B"]
      [] mcq = "all_wrong" -> [qid \in {"q1", "q2"} |-> IF qid = "q1" THEN "B" ELSE "A"]
      [] OTHER -> EmptyMap

\* the result for no questions or no answers; it has no "score" key
NoMcqResult ==
    [total_questions |-> 0, correct_count |-> 0, score |-> NoNumber, feedback |-> <<>>]

\* student_answers.get(qid) == correct_answer, question by question
McqStatus(student_answers, q) ==
    LET student_answer == IF q.id \in DOMAIN student_answers
                          THEN student_answers[q.id] ELSE None
    IN  IF student_answer = q.correct_answer THEN "correct" ELSE "incorrect"

\* score is round(correct_count / total, 2), in hundredths
validate_mcq_answers(student_answers, questions) ==
    IF Len(questions) = 0 THEN NoMcqResult
    ELSE LET feedback == [i \in 1..Len(questions) |->
                            [question_id |-> questions[i].id,
                             status |-> McqStatus(student_answers, questions[i])]]
             correct_count ==
                Cardinality({i \in 1..Len(questions) : feedback[i].status = "correct"})
         IN  [total_questions |-> Len(questions),
              correct_count |-> correct_count,
              score |-> Round(correct_count * 100, Len(questions)),
              feedback |-> feedback]

(***************************************************************************)
(* EvaluationService (services/evaluation_service.py)                      *)
(***************************************************************************)
\* coordinator_output[key] = val
WithKey(output, key, val) ==
    [k \in DOMAIN output \cup {key} |-> IF k = key THEN val ELSE output[k]]

\* evaluation_service.py:208-226: the MCQ report is attached on ASSESSMENT
McqEnriched(coordinator_output, step, mcq) ==
    IF step # "ASSESSMENT" THEN coordinator_output
    ELSE WithKey(coordinator_output, "mcq_result",
                 IF student_mcq_answers(mcq) # EmptyMap
                 THEN validate_mcq_answers(student_mcq_answers(mcq),
                                           assessment_questions)
                 ELSE NoMcqResult)

\* aggregate_evaluations with the MCQ report gating readiness
aggregate_evaluations_mcq_gate(reg, sid, evals, mcq) ==
    IF sid \notin DOMAIN reg
    THEN [reg |-> reg, resp |-> [NoResp EXCEPT !.status = "ValueError"]]
    ELSE IF Len(evals) = 0
    THEN [reg |-> reg, resp |-> [NoResp EXCEPT !.status = "IndexError"]]
    ELSE LET step == evals[1].step
             enriched == McqEnriched(aggregate(evals, step), step, mcq)
             coordinator_output ==
                IF step = "ASSESSMENT" /\ enriched.mcq_result.correct_count = 0
                THEN [enriched EXCEPT !.decision.ready_for_next_step = FALSE]
                ELSE enriched
         IN  [reg |-> store_last_evaluation(reg, sid, coordinator_output),
              resp |-> [NoResp EXCEPT !.status = "ok",
                                      !.locked = reg[sid].locked,
                                      !.evaluation = coordinator_output]]

\* aggregate_evaluations(session_id, evaluator_outputs, student_mcq_answers)
aggregate_evaluations(reg, sid, evals, mcq) ==
    IF sid \notin DOMAIN reg
    THEN [reg |-> reg, resp |-> [NoResp EXCEPT !.status = "ValueError"]]
    ELSE IF Len(evals) = 0
    THEN \* evaluator_outputs[0] on an empty list
         [reg |-> reg, resp |-> [NoResp EXCEPT !.status = "IndexError"]]
    ELSE LET step == evals[1].step
             coordinator_output == McqEnriched(aggregate(evals, step), step, mcq)
         IN  [reg |-> store_last_evaluation(reg, sid, coordinator_output),
              resp |-> [NoResp EXCEPT !.status = "ok",
                                      !.locked = reg[sid].locked,
                                      !.evaluation = coordinator_output]]

\* evaluate_step(session_id, step, ...): prepare_agent_context awaits the
\* retrieval outside any try (lines 78-107), so its failure leaves the method;
\* evals are the verdicts coordinator.evaluate_with_context returns
evaluate_step(reg, sid, step, evals, rag, mcq) ==
    IF sid \notin DOMAIN reg
    THEN [reg |-> reg, resp |-> [NoResp EXCEPT !.status = "ValueError"]]
    ELSE IF rag = "fail"
    THEN [reg |-> reg, resp |-> [NoResp EXCEPT !.status = "RetrievalError"]]
    ELSE aggregate_evaluations(reg, sid, evals, mcq)

(***************************************************************************)
(* The /session/step route (api/session_routes.py)                         *)
(***************************************************************************)
\* evaluation.get(key) is truthy: the key is looked up on the top level of the
\* dict the service returns, where the decision is one nested entry
Truthy(evaluation, key) ==
    /\ key \in DOMAIN evaluation
    /\ evaluation[key] = TRUE

\* RouteGuard answering an unknown session with the step-order error
RouteGuardWrongCode(reg, sid, step) ==
    IF sid \notin DOMAIN reg THEN "400"
    ELSE IF step # reg[sid].current_step THEN "400"
    ELSE IF reg[sid].locked THEN "403"
    ELSE "pass"

\* RouteGuard without the lock check
RouteGuardNoLock(reg, sid, step) ==
    IF sid \notin DOMAIN reg THEN "404"
    ELSE IF step # reg[sid].current_step THEN "400"
    ELSE "pass"

\* the checks of session_routes.py:44-65, in their order
RouteGuard(reg, sid, step) ==
    IF sid \notin DOMAIN reg THEN "404"
    ELSE IF step # reg[sid].current_step THEN "400"
    ELSE IF reg[sid].locked THEN "403"
    ELSE "pass"

\* session_routes.py:142-147: advance_step is called with two arguments and
\* takes one, the TypeError is caught with next_step's, next_s = None
ReadyBranch(reg, sid, evaluation) ==
    [reg |-> reg,
     resp |-> [NoResp EXCEPT !.status = "ok",
                             !.locked = reg[sid].locked,
                             !.evaluation = evaluation]]

\* RetryBranch without increment_attempt
RetryBranchNoCount(reg, sid, evaluation) ==
    IF exceeded_max_attempts(reg, sid)
    THEN [reg |-> lock_session(reg, sid, "Maximum retries exceeded"),
          resp |-> [NoResp EXCEPT !.status = "ok", !.locked = TRUE,
                                  !.evaluation = evaluation]]
    ELSE [reg |-> reg,
          resp |-> [NoResp EXCEPT !.status = "ok",
                                  !.locked = reg[sid].locked,
                                  !.evaluation = evaluation]]

\* RetryBranch wording the reason after the count it finds
RetryBranchCountedReason(reg, sid, evaluation) ==
    LET counted == increment_attempt(reg, sid)
    IN  IF exceeded_max_attempts(counted, sid)
        THEN [reg |-> lock_session(counted, sid,
                        IF counted[sid].attempts[counted[sid].current_step]
                             = MAX_ATTEMPTS
                        THEN "Maximum retries exceeded"
                        ELSE "Retry budget overrun"),
              resp |-> [NoResp EXCEPT !.status = "ok", !.locked = TRUE,
                                      !.evaluation = evaluation]]
        ELSE [reg |-> counted,
              resp |-> [NoResp EXCEPT !.status = "ok",
                                      !.locked = counted[sid].locked,
                                      !.evaluation = evaluation]]

\* RetryBranch answering with the lock flag as it was before the count
RetryBranchStaleFlag(reg, sid, evaluation) ==
    LET counted == increment_attempt(reg, sid)
    IN  IF exceeded_max_attempts(counted, sid)
        THEN [reg |-> lock_session(counted, sid, "Maximum retries exceeded"),
              resp |-> [NoResp EXCEPT !.status = "ok", !.locked = reg[sid].locked,
                                      !.evaluation = evaluation]]
        ELSE [reg |-> counted,
              resp |-> [NoResp EXCEPT !.status = "ok",
                                      !.locked = counted[sid].locked,
                                      !.evaluation = evaluation]]

\* session_routes.py:148-165
RetryBranch(reg, sid, evaluation) ==
    LET counted == increment_attempt(reg, sid)
    IN  IF exceeded_max_attempts(counted, sid)
        THEN [reg |-> lock_session(counted, sid, "Maximum retries exceeded"),
              resp |-> [NoResp EXCEPT !.status = "ok", !.locked = TRUE,
                                      !.evaluation = evaluation]]
        ELSE [reg |-> counted,
              resp |-> [NoResp EXCEPT !.status = "ok",
                                      !.locked = counted[sid].locked,
                                      !.evaluation = evaluation]]

\* session_routes.py:84-184, from the return of the retrieval on; current_step
\* is the route's local variable, read at line 53.
\* rag: "none" no user_input, "ok" retrieval answered, "fail" retrieval raised.
\* The service hands evaluator_outputs and the step to Coordinator.aggregate
\* and returns its output (evaluation_service.py:191-194, 239); the route's
\* service holds no session manager, so no snapshot is stored on this path.
EvaluateFrom(reg, sid, current_step, evals, rag) ==
    LET retrieved == IF rag = "ok"
                     THEN add_rag_result(reg, sid, [step |-> current_step]).reg
                     ELSE reg
        evaluation == aggregate(evals, current_step)
        logged == add_log(retrieved, sid,
                          [step |-> current_step]).reg
    IN  IF Truthy(evaluation, "safety_blocked")
        THEN [reg |-> lock_session(logged, sid, "Unsafe clinical action detected"),
              resp |-> [NoResp EXCEPT !.status = "ok", !.locked = TRUE,
                                      !.evaluation = evaluation]]
        ELSE IF Truthy(evaluation, "ready_for_next_step")
        THEN ReadyBranch(logged, sid, evaluation)
        ELSE RetryBranch(logged, sid, evaluation)

\* session_routes.py:67-184, for a submission that passed the checks
EvaluateStep(reg, sid, evals, rag) ==
    EvaluateFrom(reg, sid, reg[sid].current_step, evals, rag)

session_step(reg, sid, step, evals, rag) ==
    IF RouteGuard(reg, sid, step) # "pass"
    THEN [reg |-> reg, resp |-> [NoResp EXCEPT !.status = RouteGuard(reg, sid, step)]]
    ELSE EvaluateStep(reg, sid, evals, rag)

(***************************************************************************)
(* Submissions                                                             *)
(***************************************************************************)
Ev(role, st, v, c) == [agent_name |-> role, step |-> st, verdict |-> v, confidence |-> c]

\* the verdict lists submitted to a session: none, all appropriate, the unsafe
\* clinical action of the example scenario, all partially appropriate
Submissions(st) ==
    {<<>>,
     <<Ev("CommunicationAgent", st, "Appropriate", 1000),
       Ev("KnowledgeAgent", st, "Appropriate", 1000),
       Ev("ClinicalAgent", st, "Appropriate", 1000)>>,
     <<Ev("CommunicationAgent", st, "Appropriate", 900),
       Ev("KnowledgeAgent", st, "Appropriate", 800),
       Ev("ClinicalAgent", st, "Inappropriate", 950)>>,
     <<Ev("CommunicationAgent", st, "Partially Appropriate", 500),
       Ev("KnowledgeAgent", st, "Partially Appropriate", 500),
       Ev("ClinicalAgent", st, "Partially Appropriate", 500)>>}

\* session identifiers a caller sends: the ones in use and one that is not
SidInputs == 1..(MaxSessions + 1)

WithinBounds(reg) ==
    \A sid \in DOMAIN reg :
        /\ Len(reg[sid].logs) <= MaxLogs
        /\ Len(reg[sid].rag_results) <= MaxRag
        /\ Len(reg[sid].action_events) <= MaxEvents

(***************************************************************************)
(* The session machine: one action per operation                           *)
(***************************************************************************)
Init ==
    /\ sessions = NoSessions
    /\ call = NoCall
    /\ resp = NoResp
    /\ inflight = NoRequests

CreateSession ==
    /\ Cardinality(DOMAIN sessions) < MaxSessions
    /\ sessions' = create_session(sessions).reg
    /\ call' = [NoCall EXCEPT !.op = "create_session",
                              !.sid = create_session(sessions).ret]
    /\ resp' = [NoResp EXCEPT !.status = "ok", !.value = "created"]
    /\ UNCHANGED inflight

SessionStep ==
    \E sid \in SidInputs : \E step \in StepValues :
    \E evals \in Submissions(step) : \E rag \in {"none", "ok", "fail"} :
        LET r == session_step(sessions, sid, step, evals, rag)
        IN  /\ WithinBounds(r.reg)
            /\ sessions' = r.reg
            /\ call' = [op |-> "session_step", sid |-> sid, step |-> step,
                        evals |-> evals, arg |-> None]
            /\ resp' = r.resp
            /\ UNCHANGED inflight

AggregateEvaluations ==
    \E sid \in SidInputs : \E step \in Steps : \E evals \in Submissions(step) :
    \E mcq \in McqFor(step) :
        LET r == aggregate_evaluations(sessions, sid, evals, mcq)
        IN  /\ sessions' = r.reg
            /\ call' = [op |-> "aggregate_evaluations", sid |-> sid, step |-> step,
                        evals |-> evals, arg |-> mcq]
            /\ resp' = r.resp
            /\ UNCHANGED inflight

ServiceEvaluateStep ==
    \E sid \in SidInputs : \E step \in Steps : \E evals \in Submissions(step) :
    \E rag \in {"ok", "fail"} : \E mcq \in McqFor(step) :
        LET r == evaluate_step(sessions, sid, step, evals, rag, mcq)
        IN  /\ sessions' = r.reg
            /\ call' = [op |-> "evaluate_step", sid |-> sid, step |-> step,
                        evals |-> evals, arg |-> mcq]
            /\ resp' = r.resp
            /\ UNCHANGED inflight

AdvanceStep ==
    \E sid \in SidInputs :
        LET r == advance_step(sessions, sid)
        IN  /\ sessions' = r.reg
            /\ call' = [NoCall EXCEPT !.op = "advance_step", !.sid = sid]
            /\ resp' = [NoResp EXCEPT !.status = "ok", !.value = r.ret]
            /\ UNCHANGED inflight

\* update_session handed the lock flag
UpdateSessionLock ==
    \E sid \in SidInputs : \E upd \in LockUpdates :
        LET r == update_session(sessions, sid, upd)
        IN  /\ sessions' = r.reg
            /\ call' = [NoCall EXCEPT !.op = "update_session", !.sid = sid,
                                      !.arg = upd.key, !.step = upd.val]
            /\ resp' = [NoResp EXCEPT !.status = "ok", !.value = r.ret]
            /\ UNCHANGED inflight

UpdateSession ==
    \E sid \in SidInputs : \E upd \in Updates :
        LET r == update_session(sessions, sid, upd)
        IN  /\ sessions' = r.reg
            /\ call' = [NoCall EXCEPT !.op = "update_session", !.sid = sid,
                                      !.arg = upd.key, !.step = upd.val]
            /\ resp' = [NoResp EXCEPT !.status = "ok", !.value = r.ret]
            /\ UNCHANGED inflight

AddLog ==
    \E sid \in SidInputs :
        LET r == add_log(sessions, sid, [step |-> None])
        IN  /\ WithinBounds(r.reg)
            /\ sessions' = r.reg
            /\ call' = [NoCall EXCEPT !.op = "add_log", !.sid = sid]
            /\ resp' = [NoResp EXCEPT !.status = "ok", !.value = r.ret]
            /\ UNCHANGED inflight

AddRagResult ==
    \E sid \in SidInputs :
        LET r == add_rag_result(sessions, sid, [step |-> None])
        IN  /\ WithinBounds(r.reg)
            /\ sessions' = r.reg
            /\ call' = [NoCall EXCEPT !.op = "add_rag_result", !.sid = sid]
            /\ resp' = [NoResp EXCEPT !.status = "ok", !.value = r.ret]
            /\ UNCHANGED inflight

LogAction ==
    \E sid \in SidInputs : \E step \in StepValues :
        LET r == log_action(sessions, sid, step)
        IN  /\ WithinBounds(r.reg)
            /\ sessions' = r.reg
            /\ call' = [NoCall EXCEPT !.op = "log_action", !.sid = sid, !.step = step]
            /\ resp' = [NoResp EXCEPT !.status = "ok", !.value = r.ret]
            /\ UNCHANGED inflight

\* the route and the SessionManager it drives (api/session_routes.py:17-19)
Next ==
    \/ CreateSession
    \/ SessionStep
    \/ AdvanceStep
    \/ UpdateSessionLock

Spec == Init /\ [][Next]_vars

\* both evaluation entry points, the route and the service, on one registry
NextEntry ==
    \/ CreateSession
    \/ SessionStep
    \/ AggregateEvaluations

SpecEntry == Init /\ [][NextEntry]_vars

\* the EvaluationService on the SessionManager it is constructed with
\* (evaluation_service.py:26-33)
NextService ==
    \/ CreateSession
    \/ AdvanceStep
    \/ AggregateEvaluations
    \/ ServiceEvaluateStep

SpecService == Init /\ [][NextService]_vars

\* Coordinator.aggregate called directly, as the route's service and the
\* test scripts do
CoordinatorCall ==
    \E st \in Steps : \E evals \in Submissions(st) :
        /\ resp' = [NoResp EXCEPT !.status = "ok",
                                  !.evaluation = aggregate(evals, st)]
        /\ call' = [op |-> "aggregate", sid |-> 0, step |-> st, evals |-> evals,
                    arg |-> None]
        /\ UNCHANGED <<sessions, inflight>>

\* the aggregator and the orchestrator side by side on one registry
NextPure ==
    \/ CreateSession
    \/ CoordinatorCall
    \/ AggregateEvaluations

SpecPure == Init /\ [][NextPure]_vars

\* question lists as Firestore holds them: correct_answer may be missing, and
\* q.get("correct_answer") is then None
MaxQuestions == 2

QuestionIds == {"q1", "q2"}

Options == {"A", "B"}

Questions == [id : QuestionIds, correct_answer : Options \cup {None}]

QuestionLists ==
    UNION {[1..n -> Questions] : n \in 1..MaxQuestions}

\* answer maps: an option for any subset of the question ids
AnswerMaps ==
    UNION {[D -> Options] : D \in SUBSET QuestionIds}

\* MCQEvaluator.validate_mcq_answers called on its own
ValidateMcqAnswers ==
    \E questions \in QuestionLists : \E student_answers \in AnswerMaps :
        /\ call' = [NoCall EXCEPT !.op = "validate_mcq_answers",
                                  !.evals = questions,
                                  !.arg = student_answers]
        /\ resp' = [NoResp EXCEPT !.status = "ok",
                                  !.evaluation =
                                      validate_mcq_answers(student_answers, questions)]
        /\ UNCHANGED <<sessions, inflight>>

NextMcq ==
    \/ ValidateMcqAnswers

SpecMcq == Init /\ [][NextMcq]_vars

(***************************************************************************)
(* chunk_text (kushan/backend/utils.py)                                    *)
(***************************************************************************)
\* characters of a text
MaxText == 4

MaxTokens == 2

MaxOverlap == 2

Chars == {"a", "b", " "}

Texts == UNION {[1..n -> Chars] : n \in 0..MaxText}

RECURSIVE SplitFrom(_, _, _, _)
SplitFrom(text, k, word, words) ==
    IF k > Len(text)
    THEN IF word = <<>> THEN words ELSE Append(words, word)
    ELSE IF text[k] = " "
    THEN SplitFrom(text, k + 1, <<>>, IF word = <<>> THEN words ELSE Append(words, word))
    ELSE SplitFrom(text, k + 1, Append(word, text[k]), words)

\* text.split(): the runs of characters between whitespace
Split(text) == SplitFrom(text, 1, <<>>, <<>>)

\* " ".join(chunk_words)
RECURSIVE Join(_)
Join(chunk_words) ==
    IF Len(chunk_words) = 0 THEN <<>>
    ELSE IF Len(chunk_words) = 1 THEN chunk_words[1]
    ELSE chunk_words[1] \o <<" ">> \o Join(Tail(chunk_words))

\* a slice bound as Python clamps it: negative bounds count from the end
SliceBound(idx, n) ==
    IF idx < 0 THEN (IF idx + n < 0 THEN 0 ELSE idx + n)
    ELSE IF idx > n THEN n ELSE idx

\* words[lo:hi]
Slice(words, lo, hi) ==
    IF SliceBound(lo, Len(words)) >= SliceBound(hi, Len(words)) THEN <<>>
    ELSE SubSeq(words, SliceBound(lo, Len(words)) + 1, SliceBound(hi, Len(words)))

\* a loop that reaches len(words) does so within len(words) passes, so the
\* passes followed are one more than that
MaxPasses(words) == Len(words) + 1

ChunkTextRunning == call.op = "chunk_text" /\ resp.status = "running"

ChunkTextReturned == call.op = "chunk_text" /\ resp.status = "ok"

\* lines 7-9: words = text.split(); chunks = []; i = 0
ChunkTextCall ==
    /\ ~ChunkTextRunning
    /\ \E text \in Texts : \E max_tokens \in 1..MaxTokens : \E overlap \in 0..MaxOverlap :
          /\ call' = [NoCall EXCEPT !.op = "chunk_text",
                                    !.evals = text,
                                    !.arg = [max_tokens |-> max_tokens,
                                             overlap |-> overlap]]
          /\ resp' = [NoResp EXCEPT !.status = "running",
                                    !.value = [words |-> Split(text),
                                               chunks |-> <<>>,
                                               i |-> 0]]
    /\ UNCHANGED <<sessions, inflight>>

\* lines 10-13: one pass of the while loop
ChunkTextLoop ==
    /\ ChunkTextRunning
    /\ resp.value.i < Len(resp.value.words)
    /\ Len(resp.value.chunks) < MaxPasses(resp.value.words)
    /\ resp' = [resp EXCEPT
                  !.value.chunks =
                      Append(@, Join(Slice(resp.value.words, resp.value.i,
                                           resp.value.i + call.arg.max_tokens))),
                  !.value.i = @ + call.arg.max_tokens - call.arg.overlap]
    /\ UNCHANGED <<sessions, call, inflight>>

\* line 14: the loop test fails and chunks is returned
ChunkTextReturn ==
    /\ ChunkTextRunning
    /\ resp.value.i >= Len(resp.value.words)
    /\ resp' = [resp EXCEPT !.status = "ok"]
    /\ UNCHANGED <<sessions, call, inflight>>

NextChunk ==
    \/ ChunkTextCall
    \/ ChunkTextLoop
    \/ ChunkTextReturn

SpecChunk == Init /\ [][NextChunk]_vars

\* the interpreter keeps running the function it has entered
SpecChunkFair ==
    SpecChunk /\ WF_vars(ChunkTextLoop) /\ WF_vars(ChunkTextReturn)

\* the SessionManager and the ActionEventService on their own
NextOps ==
    \/ CreateSession
    \/ AdvanceStep
    \/ UpdateSession
    \/ AddLog
    \/ AddRagResult
    \/ LogAction

SpecOps == Init /\ [][NextOps]_vars

(***************************************************************************)
(* Several sessions side by side: every operation that is addressed to one *)
(* session identifier, interleaved on MaxSessions + 1 sessions             *)
(***************************************************************************)
RECURSIVE Entries(_, _)
\* list entries held by the sessions 1..n
Entries(reg, n) ==
    IF n = 0 THEN 0
    ELSE Entries(reg, n - 1)
         + (IF n \in DOMAIN reg
            THEN Len(reg[n].logs) + Len(reg[n].rag_results)
                 + Len(reg[n].action_events)
            ELSE 0)

FewEntries(reg) == Entries(reg, MaxSessions + 1) <= MaxEntries

CreatePeerSession ==
    /\ Cardinality(DOMAIN sessions) < MaxSessions + 1
    /\ sessions' = create_session(sessions).reg
    /\ call' = [NoCall EXCEPT !.op = "create_session",
                              !.sid = create_session(sessions).ret]
    /\ resp' = [NoResp EXCEPT !.status = "ok", !.value = "created"]
    /\ UNCHANGED inflight

\* a submission that passes the checks of the route; a rejected one leaves
\* the whole registry as it is
PeerSessionStep ==
    /\ SessionStep
    /\ resp'.status = "ok"
    /\ FewEntries(sessions')

PeerAddLog == AddLog /\ FewEntries(sessions')

PeerAddRagResult == AddRagResult /\ FewEntries(sessions')

PeerLogAction == LogAction /\ FewEntries(sessions')

NextPeers ==
    \/ CreatePeerSession
    \/ PeerSessionStep
    \/ AdvanceStep
    \/ UpdateSessionLock
    \/ PeerAddLog
    \/ PeerAddRagResult
    \/ PeerLogAction

SpecPeers == Init /\ [][NextPeers]_vars

DeleteSession ==
    \E sid \in SidInputs :
        LET r == delete_session(sessions, sid)
        IN  /\ sessions' = r.reg
            /\ call' = [NoCall EXCEPT !.op = "delete_session", !.sid = sid]
            /\ resp' = [NoResp EXCEPT !.status = "ok", !.value = r.ret]
            /\ UNCHANGED inflight

GetScenarioMetadata ==
    \E sid \in SidInputs :
        LET r == get_scenario_metadata(sessions, sid)
        IN  /\ sessions' = r.reg
            /\ call' = [NoCall EXCEPT !.op = "get_scenario_metadata", !.sid = sid]
            /\ resp' = [NoResp EXCEPT !.status = "ok", !.value = r.ret]
            /\ UNCHANGED inflight

\* a submission the route evaluates
AcceptedSessionStep == SessionStep /\ resp'.status = "ok"

\* the route with the action log beside it: both write the same sessions
NextActions ==
    \/ CreateSession
    \/ AcceptedSessionStep
    \/ AdvanceStep
    \/ UpdateSessionLock
    \/ LogAction

SpecActions == Init /\ [][NextActions]_vars

\* the SessionManager as a registry: sessions come and go within one clock
\* second while the other operations address known and unknown identifiers
NextRegistry ==
    \/ CreatePeerSession
    \/ DeleteSession
    \/ GetScenarioMetadata
    \/ AdvanceStep
    \/ UpdateSessionLock
    \/ PeerAddLog
    \/ PeerAddRagResult

SpecRegistry == Init /\ [][NextRegistry]_vars

(***************************************************************************)
(* Two /session/step requests of one session on the event loop.  A request *)
(* with user_input suspends at "await retrieve_with_rag" (line 75), the    *)
(* one await of the route that yields: aggregate_evaluations awaits        *)
(* nothing itself.  From the return of the retrieval the route runs to its *)
(* end without yielding.                                                   *)
(***************************************************************************)
\* no request is in flight
Quiet == inflight.reqs = <<>>

QuietCreateSession == Quiet /\ CreateSession

QuietSessionStep == Quiet /\ SessionStep

\* session_routes.py:43-75: a request with user_input passes the checks and
\* suspends at the retrieval; a second one follows on the same session and step
ReceiveStep ==
    /\ Len(inflight.reqs) < 2
    /\ \A i \in 1..Len(inflight.reqs) : inflight.reqs[i].pc = "retrieval"
    /\ \E sid \in SidInputs : \E step \in StepValues :
       \E evals \in Submissions(step) : \E rag \in {"ok", "fail"} :
        /\ ~Quiet => (sid = inflight.reqs[1].sid /\ step = inflight.reqs[1].step)
        /\ RouteGuard(sessions, sid, step) = "pass"
        /\ inflight' =
             [base |-> IF Quiet THEN sessions ELSE inflight.base,
              reqs |-> Append(inflight.reqs,
                              [sid |-> sid, step |-> step, evals |-> evals,
                               rag |-> rag,
                               current_step |-> sessions[sid].current_step,
                               pc |-> "retrieval"])]
    /\ UNCHANGED <<sessions, call, resp>>

\* session_routes.py:84-184: the retrieval of a suspended request returns
ResumeStep ==
    \E i \in 1..Len(inflight.reqs) :
        /\ inflight.reqs[i].pc = "retrieval"
        /\ LET q == inflight.reqs[i]
               r == EvaluateFrom(sessions, q.sid, q.current_step, q.evals, q.rag)
           IN  /\ sessions' = r.reg
               /\ call' = [op |-> "session_step", sid |-> q.sid, step |-> q.step,
                           evals |-> q.evals, arg |-> None]
               /\ resp' = r.resp
        /\ inflight' = [inflight EXCEPT !.reqs[i].pc = "done"]

NextConc ==
    \/ QuietCreateSession
    \/ QuietSessionStep
    \/ ReceiveStep
    \/ ResumeStep

SpecConc == Init /\ [][NextConc]_vars

\* the registry after request q1 and then request q2 ran from reg, one after
\* the other
Serial(reg, q1, q2) ==
    session_step(session_step(reg, q1.sid, q1.step, q1.evals, q1.rag).reg,
                 q2.sid, q2.step, q2.evals, q2.rag).reg

\* both requests in flight have returned
BothDone ==
    /\ Len(inflight.reqs) = 2
    /\ \A i \in 1..2 : inflight.reqs[i].pc = "done"

(***************************************************************************)
(* The aggregator on its own: every verdict list up to MaxEvals, any step  *)
(***************************************************************************)
\* the inputs of one Coordinator.aggregate call
InitAgg ==
    /\ sessions = NoSessions
    /\ \E st \in AggSteps : \E evals \in EvalLists(st) :
        call = [op |-> "aggregate", sid |-> 0, step |-> st, evals |-> evals,
                arg |-> None]
    /\ resp = NoResp
    /\ inflight = NoRequests

CoordinatorAggregate ==
    /\ call.op = "aggregate"
    /\ resp.status = "init"
    /\ resp' = [NoResp EXCEPT !.status = "ok",
                              !.evaluation = aggregate(call.evals, call.step)]
    /\ UNCHANGED <<sessions, call, inflight>>

NextAgg == CoordinatorAggregate

SpecAgg == InitAgg /\ [][NextAgg]_vars

\* the roles the step weights name, and confidences to three decimals whose
\* weighted sums fall on both sides of the threshold
WeightedRoles == {"CommunicationAgent", "KnowledgeAgent", "ClinicalAgent"}

OrderConfidences == {755, 880, 975}

OneVerdictPerRole(evals) ==
    \A i, j \in 1..Len(evals) : evals[i].agent_name = evals[j].agent_name => i = j

\* the verdict lists with at most one verdict per role, in every order
OrderLists(st) ==
    {evals \in UNION {[1..n -> [agent_name : WeightedRoles, step : {st},
                                verdict : Verdicts, confidence : OrderConfidences]]
                        : n \in 0..Cardinality(WeightedRoles)} :
        OneVerdictPerRole(evals)}

InitOrder ==
    /\ sessions = NoSessions
    /\ \E st \in Steps : \E evals \in OrderLists(st) :
        call = [op |-> "aggregate", sid |-> 0, step |-> st, evals |-> evals,
                arg |-> None]
    /\ resp = NoResp
    /\ inflight = NoRequests

SpecOrder == InitOrder /\ [][NextAgg]_vars

HasUnsafeClinical(evals) ==
    \E i \in 1..Len(evals) :
        evals[i].agent_name = "ClinicalAgent" /\ evals[i].verdict = "Inappropriate"

\* C1: on CLEANING or DRESSING a verdict list holding a ClinicalAgent verdict
\* "Inappropriate" yields safety_blocked = TRUE and ready_for_next_step = FALSE,
\* whatever the other verdicts, the confidences and the composite score are.
C1_SafetyVeto ==
    (/\ call.op = "aggregate"
     /\ resp.status = "ok"
     /\ call.step \in {"CLEANING", "DRESSING"}
     /\ HasUnsafeClinical(call.evals))
    => (/\ resp.evaluation.decision.safety_blocked
        /\ ~resp.evaluation.decision.ready_for_next_step)

\* the veto overrides a composite score that passes the threshold, and it fires
\* at confidence 0.0
C1_Witness ==
    /\ call.op = "aggregate"
    /\ call.step = "CLEANING"
    /\ HasUnsafeClinical(call.evals)
    /\ \E i \in 1..Len(call.evals) :
        /\ call.evals[i].agent_name = "ClinicalAgent"
        /\ call.evals[i].verdict = "Inappropriate"
        /\ call.evals[i].confidence = 0
    /\ resp.evaluation.scores.composite_score >= READINESS_THRESHOLD
    /\ resp.evaluation.decision.safety_blocked

\* C2: safety_blocked is TRUE only on CLEANING or DRESSING with a ClinicalAgent
\* verdict "Inappropriate" in the list; on other steps it is FALSE.
C2_SafetyOnlyIf ==
    (call.op = "aggregate" /\ resp.evaluation.decision.safety_blocked)
    => (/\ call.step \in {"CLEANING", "DRESSING"}
        /\ HasUnsafeClinical(call.evals))

\* an unsafe clinical verdict on a step that is not checked
C2_Witness ==
    /\ call.op = "aggregate"
    /\ resp.status = "ok"
    /\ call.step \in {"HISTORY", "ASSESSMENT"}
    /\ HasUnsafeClinical(call.evals)
    /\ ~resp.evaluation.decision.safety_blocked

(***************************************************************************)
(* Claims about the session machine                                        *)
(***************************************************************************)
\* the step just taken is a call of op addressed to a session in the registry
CallOn(op) ==
    /\ call'.op = op
    /\ call'.sid \in DOMAIN sessions

\* the step just taken is a /session/step call that ran the evaluation
Evaluated ==
    /\ CallOn("session_step")
    /\ resp'.status = "ok"

Before == sessions[call'.sid]

After == sessions'[call'.sid]

\* C3: submit-step on an unlocked session on CLEANING or DRESSING with a
\* ClinicalAgent verdict "Inappropriate" leaves the session locked, on the same
\* step, with the retry counters as they were.
C3_SafetyLock ==
    [][(/\ CallOn("session_step")
        /\ ~Before.locked
        /\ call'.step = Before.current_step
        /\ call'.step \in {"CLEANING", "DRESSING"}
        /\ HasUnsafeClinical(call'.evals))
       => (/\ After.locked
           /\ After.current_step = Before.current_step
           /\ After.attempts = Before.attempts)]_vars

\* C4 as claimed: a submit-step call on a locked session returns the locked
\* status and changes nothing, whatever step it carries.
C4_LockedAnyStep ==
    [][(CallOn("session_step") /\ Before.locked)
       => (resp'.status = "403" /\ sessions' = sessions)]_vars

\* C4 amended: a submit-step call on a locked session changes nothing and runs
\* no retrieval or aggregation; it returns the locked status when its step is
\* the session's current step and the invalid-step-order error otherwise.
C4_LockedShortCircuit ==
    [][(CallOn("session_step") /\ Before.locked)
       => (/\ sessions' = sessions
           /\ resp'.evaluation = NoEvaluation
           /\ resp'.status =
                IF call'.step = Before.current_step THEN "403" ELSE "400")]_vars

\* a session locked by its third failed attempt answers the next submission
\* of its current step with the locked status
C4_Witness ==
    /\ call.op = "session_step"
    /\ call.sid \in DOMAIN sessions
    /\ resp.status = "403"
    /\ sessions[call.sid].locked
    /\ sessions[call.sid].lock_reason = "Maximum retries exceeded"
    /\ Len(call.evals) > 0

\* C5: once a session's locked flag is TRUE it is TRUE in every later state.
C5_LockSticky ==
    [][\A sid \in DOMAIN sessions :
         sessions[sid].locked
         => (sid \in DOMAIN sessions' /\ sessions'[sid].locked)]_vars

\* C6: advance_step on a locked session returns None and leaves current_step.
C6_LockedNeverAdvances ==
    [][(CallOn("advance_step") /\ Before.locked)
       => (resp'.value = None /\ After.current_step = Before.current_step)]_vars

\* C7: a submission whose step differs from the session's current step is
\* rejected and leaves the session unchanged, on the route and on
\* EvaluationService.aggregate_evaluations.
C7_InvalidStepOrder ==
    [][(/\ CallOn("session_step") \/ CallOn("aggregate_evaluations")
        /\ call'.step # Before.current_step)
       => (resp'.status # "ok" /\ sessions' = sessions)]_vars

\* C8: a submit-step or aggregate_evaluations call with a session identifier
\* that is not in the registry fails with the not-found error and leaves the
\* registry and every session in it unchanged.
C8_NotFound ==
    [][(/\ call'.op \in {"session_step", "aggregate_evaluations"}
        /\ call'.sid \notin DOMAIN sessions)
       => (/\ sessions' = sessions
           /\ resp'.evaluation = NoEvaluation
           /\ resp'.status =
                IF call'.op = "session_step" THEN "404" ELSE "ValueError")]_vars

\* an unknown identifier sent to the route while another session exists
C8_Witness ==
    /\ call.op = "session_step"
    /\ call.sid \notin DOMAIN sessions
    /\ DOMAIN sessions # {}
    /\ resp.status = "404"

C10_ReadyAdvance ==
    [][(/\ Evaluated
        /\ resp'.evaluation.decision.ready_for_next_step
        /\ ~resp'.evaluation.decision.safety_blocked
        /\ Before.current_step \in Steps
        /\ next_step(Before.current_step) # None)
       => (/\ After.current_step = next_step(Before.current_step)
           /\ After.attempts[Before.current_step] = 0)]_vars

\* C11: advance_step on a session whose current step is DRESSING returns None
\* without raising and changes nothing; an evaluated submission at DRESSING
\* whose decision is ready leaves the session on DRESSING and reports no
\* next_step.
C11_TerminalNoOp ==
    [][/\ (CallOn("advance_step") /\ Before.current_step = "DRESSING")
          => (/\ resp'.status = "ok"
              /\ resp'.value = None
              /\ After.current_step = "DRESSING"
              /\ sessions' = sessions)
       /\ (/\ Evaluated
           /\ Before.current_step = "DRESSING"
           /\ resp'.evaluation.decision.ready_for_next_step)
          => (/\ After.current_step = "DRESSING"
              /\ resp'.next_step = None)]_vars

\* advance_step was called on a session standing on DRESSING
C11_Witness ==
    /\ call.op = "advance_step"
    /\ call.sid \in DOMAIN sessions
    /\ sessions[call.sid].current_step = "DRESSING"
    /\ resp.status = "ok"
    /\ resp.value = None

\* C12: an evaluated submission applies exactly one transition, by priority:
\* a safety-blocked decision locks the session, which neither advances nor
\* counts an attempt; else a ready decision advances the session and counts no
\* attempt; else the current step's counter goes up by one and the session is
\* locked only if the counter has then reached the cap.
C12_OneTransition ==
    [][Evaluated
       => LET d == resp'.evaluation.decision
              st == Before.current_step
          IN  IF d.safety_blocked
              THEN /\ After.locked
                   /\ After.current_step = st
                   /\ After.attempts = Before.attempts
              ELSE IF d.ready_for_next_step
              THEN /\ After.current_step =
                        IF next_step(st) = None THEN st ELSE next_step(st)
                   /\ After.attempts[st] <= Before.attempts[st]
                   /\ After.locked = Before.locked
              ELSE /\ After.current_step = st
                   /\ After.attempts = [Before.attempts EXCEPT ![st] = @ + 1]
                   /\ After.locked <=> (After.attempts[st] >= MAX_ATTEMPTS)]_vars

C14_Independence ==
    [][\A sid \in DOMAIN sessions :
         sid # call'.sid
         => (sid \in DOMAIN sessions' /\ sessions'[sid] = sessions[sid])]_vars

\* a submission was evaluated on one session while another session stands
\* locked on a later step
C14_Witness ==
    /\ call.op = "session_step"
    /\ resp.status = "ok"
    /\ call.sid \in DOMAIN sessions
    /\ sessions[call.sid].attempts[call.step] = 1
    /\ ~sessions[call.sid].locked
    /\ \E other \in DOMAIN sessions :
        /\ other # call.sid
        /\ sessions[other].locked
        /\ sessions[other].current_step = "CLEANING"
        /\ sessions[other].attempts = NewSession.attempts

(***************************************************************************)
(* Claims about the decision of Coordinator.aggregate                      *)
(***************************************************************************)
\* Coordinator.aggregate has returned for the call's verdict list
Aggregated ==
    /\ call.op = "aggregate"
    /\ resp.status = "ok"

C16_BlockingIssues ==
    Aggregated
    => (~resp.evaluation.decision.ready_for_next_step
        => resp.evaluation.decision.blocking_issues # <<>>)

\* C17: on an empty verdict list the decision is not ready, not
\* safety-blocked, names "No evaluations available" and no threshold, and the
\* scores are empty, on every step.
C17_EmptyVerdicts ==
    (Aggregated /\ call.evals = <<>>)
    => /\ resp.evaluation.decision =
            [ready_for_next_step |-> FALSE,
             safety_blocked |-> FALSE,
             blocking_issues |-> <<"No evaluations available">>,
             threshold_used |-> NoNumber]
       /\ resp.evaluation.score_keys = {}
       /\ resp.evaluation.step = call.step

\* the empty list on a step under the safety rule
C17_Witness ==
    /\ Aggregated
    /\ call.evals = <<>>
    /\ call.step = "DRESSING"
    /\ ~resp.evaluation.decision.ready_for_next_step

\* C18: a submission with an empty verdict list on an existing unlocked
\* session, on its current step, completes on the route and on
\* EvaluationService.aggregate_evaluations and returns a decision that is not
\* ready and lists a blocking issue.
C18_DegenerateInput ==
    [][(/\ CallOn("session_step") \/ CallOn("aggregate_evaluations")
        /\ ~Before.locked
        /\ call'.step = Before.current_step
        /\ call'.evals = <<>>)
       => (/\ resp'.status = "ok"
           /\ ~resp'.evaluation.decision.ready_for_next_step
           /\ resp'.evaluation.decision.blocking_issues # <<>>)]_vars

\* C19: threshold_used is None exactly when the verdict list is empty; for a
\* non-empty list it is the threshold the readiness check applied, whether the
\* decision is ready, not ready or safety-blocked.
C19_ThresholdReported ==
    Aggregated
    => LET d == resp.evaluation.decision
       IN  /\ d.threshold_used = NoNumber <=> call.evals = <<>>
           /\ call.evals # <<>>
              => d.threshold_used =
                   check_readiness(call.evals, call.step,
                       resp.evaluation.scores.composite_score).threshold_used

\* a safety-blocked decision carries the threshold
C19_Witness ==
    /\ Aggregated
    /\ call.evals # <<>>
    /\ resp.evaluation.decision.safety_blocked
    /\ resp.evaluation.decision.threshold_used = READINESS_THRESHOLD

\* C20: for every step and verdict list, repeated role names included, every
\* per-role score and the composite score lie in [0, 1] (0..1000 thousandths).
C20_ScoreBounds ==
    (Aggregated /\ call.evals # <<>>)
    => LET sc == resp.evaluation.scores
       IN  /\ \A role \in DOMAIN sc.agent_scores :
                sc.agent_scores[role] \in 0..1000
           /\ sc.composite_score \in 0..1000

RECURSIVE RoleSum(_, _, _)
\* the sum of agent_scores[role] times the step's weight over a set of roles,
\* in ten-thousandths
RoleSum(agent_scores, st, roles) ==
    IF roles = {} THEN 0
    ELSE LET role == CHOOSE r \in roles : TRUE
         IN  agent_scores[role] * STEP_WEIGHTS(st, role)
             + RoleSum(agent_scores, st, roles \ {role})

\* C21: the composite score is the sum, over the roles reported in
\* agent_scores, of the role's score times the step's weight for the role,
\* rounded to 3 decimals; a role without a weight adds 0.
C21_CompositeConsistency ==
    (Aggregated /\ call.evals # <<>>)
    => LET sc == resp.evaluation.scores
       IN  /\ DOMAIN sc.agent_scores = RolesIn(call.evals)
           /\ sc.composite_score =
                Round(RoleSum(sc.agent_scores, call.step, DOMAIN sc.agent_scores), 10)

\* C22: on a session at ASSESSMENT, whichever MCQ answers accompany a verdict
\* list (absent, all correct, all wrong), aggregate_evaluations returns the
\* same decision and scores and leaves the session with the same step,
\* attempts and lock; only the attached mcq_result differs.
C22_McqNonInterference ==
    [][(CallOn("aggregate_evaluations") /\ call'.sid \in DOMAIN sessions
            /\ Before.current_step = "ASSESSMENT")
        => \A mcq \in McqInputs :
             LET r == aggregate_evaluations(sessions, call'.sid, call'.evals, mcq)
             IN  /\ r.resp.status = resp'.status
                 /\ resp'.status = "ok"
                    => /\ r.resp.evaluation.decision = resp'.evaluation.decision
                       /\ r.resp.evaluation.scores = resp'.evaluation.scores
                 /\ r.reg[call'.sid].current_step = After.current_step
                 /\ r.reg[call'.sid].attempts = After.attempts
                 /\ r.reg[call'.sid].locked = After.locked
                 /\ r.reg[call'.sid].lock_reason = After.lock_reason]_vars

\* an all-wrong MCQ report attached to a ready ASSESSMENT evaluation of a
\* session that is on ASSESSMENT
C22_Witness ==
    /\ call.op = "aggregate_evaluations"
    /\ call.arg = "all_wrong"
    /\ resp.status = "ok"
    /\ sessions[call.sid].current_step = "ASSESSMENT"
    /\ resp.evaluation.step = "ASSESSMENT"
    /\ resp.evaluation.mcq_result.total_questions = 2
    /\ resp.evaluation.mcq_result.correct_count = 0
    /\ resp.evaluation.decision.ready_for_next_step

\* what the call just made returns when its retrieval has outcome rag
WithRetrieval(rag) ==
    IF call'.op = "session_step"
    THEN session_step(sessions, call'.sid, call'.step, call'.evals, rag)
    ELSE evaluate_step(sessions, call'.sid, call'.step, call'.evals, rag, call'.arg)

\* C23: a step evaluation whose retrieval fails returns the same decision and
\* leaves the session with the same step, retry counters and lock as the same
\* evaluation with a successful retrieval, in the session_step route and in
\* EvaluationService.evaluate_step.
C23_RetrievalNonFatal ==
    [][(call'.op \in {"session_step", "evaluate_step"}
            /\ call'.sid \in DOMAIN sessions)
        => LET failed == WithRetrieval("fail")
               succeeded == WithRetrieval("ok")
           IN  /\ failed.resp.status = succeeded.resp.status
               /\ failed.resp.evaluation = succeeded.resp.evaluation
               /\ failed.reg[call'.sid].current_step
                    = succeeded.reg[call'.sid].current_step
               /\ failed.reg[call'.sid].attempts = succeeded.reg[call'.sid].attempts
               /\ failed.reg[call'.sid].locked = succeeded.reg[call'.sid].locked]_vars

C25_InitialState ==
    [][call'.op = "create_session"
        => LET created == sessions'[call'.sid]
           IN  /\ call'.sid \notin DOMAIN sessions
               /\ created.current_step = "HISTORY"
               /\ ~created.locked
               /\ created.lock_reason = None
               /\ \A s \in Steps : created.attempts[s] = 0
               /\ created.logs = <<>>
               /\ created.rag_results = <<>>
               /\ created.events = <<>>
               /\ created.action_events = <<>>]_vars

\* a second session created while the first is locked, past HISTORY and
\* holds a log entry
C25_Witness ==
    /\ call.op = "create_session"
    /\ call.sid = 2
    /\ sessions[2] = NewSession
    /\ sessions[1].locked
    /\ sessions[1].current_step # "HISTORY"
    /\ sessions[1].logs # <<>>

\* C26: in every reachable state the current_step of every session of the
\* registry is one of HISTORY, ASSESSMENT, CLEANING, DRESSING.
C26_StepInvariant ==
    \A sid \in DOMAIN sessions : sessions[sid].current_step \in Steps

Extends(list, old) ==
    /\ Len(list) >= Len(old)
    /\ \A i \in 1..Len(old) : list[i] = old[i]

\* C30: the logs, rag_results and action_events of a session only grow at the
\* end: across every operation each entry stays, unchanged, where it was.
C30_AppendOnly ==
    [][\A sid \in DOMAIN sessions :
         /\ sid \in DOMAIN sessions'
         /\ Extends(sessions'[sid].logs, sessions[sid].logs)
         /\ Extends(sessions'[sid].rag_results, sessions[sid].rag_results)
         /\ Extends(sessions'[sid].action_events, sessions[sid].action_events)]_vars

\* evals in the order p
Permuted(evals, p) == [i \in 1..Len(evals) |-> evals[p[i]]]

\* C27: for a verdict list with at most one verdict per role, every
\* permutation of the list gives the agent_scores, the composite score and
\* the decision Coordinator.aggregate returned for the list.
C27_OrderInsensitive ==
    (/\ call.op = "aggregate"
     /\ resp.status = "ok"
     /\ OneVerdictPerRole(call.evals))
    => \A p \in Permutations(1..Len(call.evals)) :
         LET r == aggregate(Permuted(call.evals, p), call.step)
         IN  /\ r.scores = resp.evaluation.scores
             /\ r.decision = resp.evaluation.decision

\* C31: create_session returns an identifier that is not in the registry, so
\* every session that was there is still there, as it was.
C31_UniqueIds ==
    [][call'.op = "create_session"
        => /\ call'.sid \notin DOMAIN sessions
           /\ \A sid \in DOMAIN sessions :
                sid \in DOMAIN sessions' /\ sessions'[sid] = sessions[sid]]_vars

\* C32: across submit-step and advance_step calls every change of a session's
\* current_step goes from a step to its immediate successor in HISTORY,
\* ASSESSMENT, CLEANING, DRESSING: never backward, never past a step.
C32_MonotoneSteps ==
    [][\A sid \in DOMAIN sessions :
         /\ sid \in DOMAIN sessions'
         /\ sessions'[sid].current_step # sessions[sid].current_step
            => /\ sessions[sid].current_step \in Steps
               /\ sessions'[sid].current_step = next_step(sessions[sid].current_step)]_vars

\* a session brought to DRESSING by advance_step after submissions were
\* evaluated on HISTORY and on CLEANING
C32_Witness ==
    /\ call.op = "advance_step"
    /\ call.sid \in DOMAIN sessions
    /\ resp.value = "DRESSING"
    /\ sessions[call.sid].current_step = "DRESSING"
    /\ sessions[call.sid].attempts["HISTORY"] = 1
    /\ sessions[call.sid].attempts["CLEANING"] = 1

C36_LogAction ==
    [][call'.op = "log_action"
       => IF call'.sid \notin DOMAIN sessions
             \/ sessions[call'.sid].current_step # call'.step
          THEN resp'.value = "ValueError" /\ sessions' = sessions
          ELSE /\ resp'.value = "event"
               /\ Len(After.action_events) = Len(Before.action_events) + 1
               /\ Extends(After.action_events, Before.action_events)
               /\ After.action_events[Len(After.action_events)].step = call'.step
               /\ sessions' = [sessions EXCEPT ![call'.sid].action_events =
                                                  After.action_events]]_vars

\* an event logged on a locked session on CLEANING that has spent attempts
C36_Witness ==
    /\ call.op = "log_action"
    /\ resp.value = "event"
    /\ call.sid \in DOMAIN sessions
    /\ sessions[call.sid].current_step = "CLEANING"
    /\ sessions[call.sid].locked
    /\ sessions[call.sid].attempts["CLEANING"] = MAX_ATTEMPTS
    /\ Len(sessions[call.sid].action_events) = 1

\* C37: on an identifier that is not in the registry update_session, add_log,
\* add_rag_result and delete_session return False, advance_step and
\* get_scenario_metadata return None, and the registry with every session in
\* it is unchanged.
C37_UnknownId ==
    [][(/\ call'.op \in {"update_session", "add_log", "add_rag_result",
                         "advance_step", "get_scenario_metadata", "delete_session"}
        /\ call'.sid \notin DOMAIN sessions)
       => /\ sessions' = sessions
          /\ resp'.value =
                IF call'.op \in {"advance_step", "get_scenario_metadata"}
                THEN None ELSE "False"]_vars

\* add_log on the identifier of a deleted session while another session,
\* advanced and locked, is in the registry
C37_Witness ==
    /\ call.op = "add_log"
    /\ call.sid = 1
    /\ resp.value = "False"
    /\ DOMAIN sessions = {2}
    /\ sessions[2].locked
    /\ sessions[2].current_step = "ASSESSMENT"

\* C38: for every non-empty question list and every answer map the report has
\* total_questions equal to the number of questions, one feedback entry per
\* question in question order, correct_count equal to the number of entries
\* with status "correct", and a question is counted correct only if the
\* student supplied an answer for it that equals its correct answer.
C38_McqReport ==
    call.op = "validate_mcq_answers"
    => LET questions == call.evals
           student_answers == call.arg
           report == resp.evaluation
       IN  /\ report.total_questions = Len(questions)
           /\ Len(report.feedback) = Len(questions)
           /\ \A i \in 1..Len(questions) :
                  report.feedback[i].question_id = questions[i].id
           /\ report.correct_count =
                  Cardinality({i \in 1..Len(questions) :
                                  report.feedback[i].status = "correct"})
           /\ report.correct_count \in 0..report.total_questions
           /\ \A i \in 1..Len(questions) :
                  report.feedback[i].status = "correct"
                  => /\ questions[i].id \in DOMAIN student_answers
                     /\ student_answers[questions[i].id] = questions[i].correct_answer

\* every word of the text is a word of some chunk and no chunk has more than
\* max_tokens words
ChunksCover ==
    /\ \A j \in 1..Len(resp.value.words) :
          \E c \in 1..Len(resp.value.chunks) :
              \E k \in 1..Len(Split(resp.value.chunks[c])) :
                  Split(resp.value.chunks[c])[k] = resp.value.words[j]
    /\ \A c \in 1..Len(resp.value.chunks) :
          Len(Split(resp.value.chunks[c])) <= call.arg.max_tokens

\* C39: chunk_text returns for every text, max_tokens >= 1 and overlap >= 0,
\* and the chunks it returns hold every word of the text, none of them more
\* than max_tokens words long.
C39_ChunkText ==
    /\ (call.op = "chunk_text") ~> ChunkTextReturned
    /\ [](ChunkTextReturned => ChunksCover)
====
